---- MODULE Spec2Model ----
(***************************************************************************)
(* Model of the test-support utilities of torchrec:                        *)
(*   - generate_planner_constraints                                        *)
(*       (torchrec/distributed/model_tracker/tests/utils.py)               *)
(*   - gen_test_batch, TestMetric.compute, rec_metric_value_test_helper,   *)
(*     metric_test_helper, sync_test_helper, get_launch_config             *)
(*       (torchrec/metrics/test_utils/__init__.py)                         *)
(* Three specifications share the module: SpecPlanner (the constraint      *)
(* generator), SpecCompute (the reference aggregator run on every rank of  *)
(* a process group) and SpecWorkers (the worker entry points under the     *)
(* elastic launcher).                                                      *)
(***************************************************************************)
EXTENDS Integers, Sequences, FiniteSets, TLC

VARIABLES
    \* ---- generate_planner_constraints ----
    tables,        \* the argument: a list of EmbeddingTableProps
    constraints,   \* the dict under construction (a function on its key set)
    tbl_i,         \* number of tables the for loop has consumed
    \* ---- TestMetric.compute on every rank of one process group ----
    world_size,    \* number of ranks of the group
    batch_size,    \* rows per batch
    nsteps,        \* argument nsteps of compute
    batch_window_size,  \* argument batch_window_size of compute
    flags,         \* the four _compute_* flags of the TestMetric object
    state_fn,      \* which subclass supplies _get_states / _compute
    seed,          \* the seed handed to gen_test_batch (None or an integer)
    torch_rng,     \* per rank: state of the process's torch generator
    prior_rng,     \* per rank: history, the generator state at process start
    model_outs,    \* per rank: the generated list of batches
    cpc,           \* per rank: position in the helper
    step_i,        \* per rank: loop variable i of compute
    posted,        \* per rank: the batches it has contributed to all_gather
    aggregated_model_out,  \* per rank: the dict of gathered tensors
    acc,           \* per rank: the four state dicts, each keyed by task name
    agg_log,       \* per rank: history of the steps each accumulator aggregated
    metrics,       \* per rank: the four returned metric dicts
    \* ---- worker entry points under the elastic launcher ----
    helper,        \* the entry point launched: "metric" or "sync"
    w_args,        \* the arguments the launcher hands to every worker
    fault,         \* the target value (if any) that is off beyond tolerance
    lc,            \* the LaunchConfig of the launch
    restarts,      \* restarts the elastic agent has performed
    runs,          \* per rank: times the entry point was started
    wstatus,       \* per rank: "running", "in_collective" (blocked in one),
                   \*   "succeeded", "failed" or "terminated"
    prog,          \* per rank: the operations of its entry point, in order
    wpc,           \* per rank: index of the next operation of its program
    pg,            \* per rank: process group "none", "initialized", "destroyed"
    target,        \* per rank: what the target metric object was handed
    coll,          \* per rank: the collectives it has entered, in order
    compared,      \* per rank: the (task, kind, phase) values compared so far
    timestamps,    \* per rank: the list gen_test_timestamps returned, if called
    time_mock,     \* per rank: the patch of the target's time.monotonic
    events,        \* per rank: history, the calls the entry point has made
    \* ---- TestMetric._aggregate on tensor objects ----
    tensor_heap,   \* the tensors: identity (index) -> value and origin
    got_states,    \* the dict _get_states returned last (name -> tensor)
    state_dicts,   \* the four dicts of state dicts: kind -> task -> name -> tensor
    agg_calls,     \* history: kind -> task -> the values of each new_states
    agg_count      \* number of _aggregate calls made

plannerVars == <<tables, constraints, tbl_i>>

computeVars == <<world_size, batch_size, nsteps, batch_window_size, flags,
                 state_fn, seed, torch_rng, prior_rng, model_outs, cpc, step_i,
                 posted, aggregated_model_out, acc, agg_log, metrics>>

workerVars == <<helper, w_args, fault, lc, restarts, runs, wstatus, prog, wpc, pg,
                target, coll, compared, timestamps, time_mock, events>>

aggregateVars == <<tensor_heap, got_states, state_dicts, agg_calls, agg_count>>

vars == <<plannerVars, computeVars, workerVars, aggregateVars>>

\* Optional[T]: None is the empty set, a present value v is {v}.
None == {}
Some(v) == {v}
The(o) == CHOOSE v \in o : TRUE

----------------------------------------------------------------------------
(* Bounds of the planner model *)
MaxTables == 3

TableNames == {"t1", "t2"}
ShardingTypes == {"table_wise", "row_wise"}
FeatureLists == {<<"f1">>}

\* EmbeddingTableProps, flattened: embedding_table_config.name,
\* embedding_table_config.feature_names, sharding.
EmbeddingTableProps ==
    [name : TableNames, feature_names : FeatureLists, sharding : ShardingTypes]

SeqsUpTo(S, n) == UNION {[1..k -> S] : k \in 0..n}

\* The ParameterConstraints record built for one table.
ParameterConstraintsOf(table) ==
    [sharding_types  |-> <<table.sharding>>,
     compute_kernels |-> <<"fused">>,
     feature_names   |-> table.feature_names,
     pooling_factors |-> <<1>>]

\* constraints[key] = value on a dict: insert, or overwrite an existing key.
DictSetKeepFirst(d, key, value) ==
    [k \in (DOMAIN d) \cup {key} |-> IF k \in DOMAIN d THEN d[k] ELSE value]
DictSet(d, key, value) ==
    [k \in (DOMAIN d) \cup {key} |-> IF k = key THEN value ELSE d[k]]

EmptyDict == [k \in {} |-> 0]

PlannerInit ==
    /\ tables \in SeqsUpTo(EmbeddingTableProps, MaxTables)
    /\ constraints = EmptyDict
    /\ tbl_i = 0

PlannerIdle ==
    /\ tables = <<>>
    /\ constraints = EmptyDict
    /\ tbl_i = 0

\* One iteration of `for table in tables`.
PlannerStep ==
    /\ tbl_i < Len(tables)
    /\ constraints' = DictSet(constraints, tables[tbl_i + 1].name,
                              ParameterConstraintsOf(tables[tbl_i + 1]))
    /\ tbl_i' = tbl_i + 1
    /\ UNCHANGED tables

PlannerReturned == tbl_i = Len(tables)

----------------------------------------------------------------------------
(* torch's random generator, tensors and gen_test_batch                    *)
(*                                                                         *)
(* A double in [0, 1) is the fixed-point numerator v of v / RngModulus.    *)
(* The generator is a linear congruential generator over 0..RngModulus-1:  *)
(* a draw outputs a value derived from the state and advances the state.   *)

RngModulus == 7
RngStates == 0 .. (RngModulus - 1)

RngNext(s) == (3 * s + 1) % RngModulus

\* torch.manual_seed(seed): the state becomes a function of the seed alone.
ManualSeedNoReseed(rng, sd) == rng
ManualSeed(rng, sd) == sd % RngModulus

\* n successive generator outputs, each reduced modulo `range`
\* (torch.rand: range = RngModulus; torch.randint(0, n): range = n).
RECURSIVE DrawSeq(_, _, _)
DrawSeq(rng, n, range) ==
    IF n = 0 THEN [vals |-> <<>>, rng |-> rng]
    ELSE LET rest == DrawSeq(RngNext(rng), n - 1, range)
         IN  [vals |-> <<rng % range>> \o rest.vals, rng |-> rest.rng]

\* torch.rand(batch_size, n_classes): batch_size rows of n_classes outputs.
RECURSIVE DrawRows(_, _, _)
DrawRows(rng, rows, width) ==
    IF rows = 0 THEN [vals |-> <<>>, rng |-> rng]
    ELSE LET row  == DrawSeq(rng, width, RngModulus)
             rest == DrawRows(row.rng, rows - 1, width)
         IN  [vals |-> <<row.vals>> \o rest.vals, rng |-> rest.rng]

Ones(n) == [j \in 1..n |-> 1]

\* The field names of one task (RecTaskInfo built by gen_test_tasks):
\* f"{task_name}-label" is the pair <<task_name, "label">>, and so on.
RecTaskInfo(task_name) ==
    [name            |-> task_name,
     label_name      |-> <<task_name, "label">>,
     prediction_name |-> <<task_name, "prediction">>,
     weight_name     |-> <<task_name, "weight">>,
     tensor_name     |-> <<task_name, "tensor">>]

gen_test_tasks(task_names) ==
    [j \in 1..Len(task_names) |-> RecTaskInfo(task_names[j])]

\* {**d1, **d2}: the entries of d2 win.
DictMerge(d1, d2) ==
    [k \in (DOMAIN d1) \cup (DOMAIN d2) |-> IF k \in DOMAIN d2 THEN d2[k] ELSE d1[k]]

\* gen_test_batch.  Returns the batch and the generator state it leaves.
\* Optional arguments are None or Some(value).
gen_test_batch(rng, bsz, task, mask_tensor_name, label_value, prediction_value, weight_value, mask, n_classes, sd) ==
    LET r0 == IF sd # None THEN ManualSeed(rng, The(sd)) ELSE rng
        lab == IF label_value # None
               THEN [vals |-> The(label_value), rng |-> r0]
               ELSE DrawSeq(r0, bsz,
                            IF n_classes # None /\ The(n_classes) # 0
                            THEN The(n_classes) ELSE 2)
        prd == IF prediction_value # None
               THEN [vals |-> The(prediction_value), rng |-> lab.rng]
               ELSE IF n_classes = None
                    THEN DrawSeq(lab.rng, bsz, RngModulus)
                    ELSE DrawRows(lab.rng, bsz, The(n_classes))
        wgt == IF weight_value # None
               THEN [vals |-> The(weight_value), rng |-> prd.rng]
               ELSE DrawSeq(prd.rng, bsz, RngModulus)
        tns == DrawSeq(wgt.rng, bsz, RngModulus)
        test_batch ==
            [k \in {task.label_name, task.prediction_name,
                    task.weight_name, task.tensor_name} |->
                IF k = task.tensor_name THEN tns.vals
                ELSE IF k = task.weight_name THEN wgt.vals
                ELSE IF k = task.prediction_name THEN prd.vals
                ELSE lab.vals]
        masked ==
            IF mask_tensor_name # None
            THEN DictMerge(test_batch,
                           [k \in mask_tensor_name |->
                               IF mask = None THEN Ones(bsz) ELSE The(mask)])
            ELSE test_batch
    IN  [batch |-> masked, rng |-> tns.rng]

\* One entry of model_outs: the batches of all tasks merged into one dict
\* ({k: v for d in _model_outs for k, v in d.items()}); the tasks' calls of
\* gen_test_batch run in list order on the same generator.
RECURSIVE GenModelOut(_, _, _, _, _, _, _, _)
GenModelOut(rng, tasks, j, bsz, n_classes, weight_value, label_value, sd) ==
    IF j > Len(tasks) THEN [batch |-> [k \in {} |-> 0], rng |-> rng]
    ELSE LET one  == gen_test_batch(rng, bsz, tasks[j], None, label_value,
                                    None, weight_value, None, n_classes, sd)
             rest == GenModelOut(one.rng, tasks, j + 1, bsz, n_classes,
                                 weight_value, label_value, sd)
         IN  [batch |-> DictMerge(one.batch, rest.batch), rng |-> rest.rng]

\* The list model_outs of n entries.
RECURSIVE GenModelOuts(_, _, _, _, _, _, _, _)
GenModelOuts(rng, tasks, n, bsz, n_classes, weight_value, label_value, sd) ==
    IF n = 0 THEN [outs |-> <<>>, rng |-> rng]
    ELSE LET one  == GenModelOut(rng, tasks, 1, bsz, n_classes,
                                 weight_value, label_value, sd)
             rest == GenModelOuts(one.rng, tasks, n - 1, bsz, n_classes,
                                  weight_value, label_value, sd)
         IN  [outs |-> <<one.batch>> \o rest.outs, rng |-> rest.rng]

----------------------------------------------------------------------------
(* TestMetric                                                              *)

RECURSIVE SumSeq(_)
SumSeq(q) == IF q = <<>> THEN 0 ELSE Head(q) + SumSeq(Tail(q))

MaxOf(S) == CHOOSE m \in S : \A x \in S : x <= m

\* The implementations of the abstract _get_states the model provides:
\* "calibration" sums weighted predictions and weighted labels over the
\* rows (additive over rows); "extreme" keeps the largest weight of the
\* batch (not additive over rows).
StateFns == {"calibration", "extreme"}
Additive(fn) == fn = "calibration"

GetStates(fn, labels, predictions, weights, required_inputs_tensor) ==
    IF fn = "calibration"
    THEN [num |-> SumSeq([j \in 1..Len(labels) |-> predictions[j] * weights[j]]),
          den |-> SumSeq([j \in 1..Len(labels) |-> labels[j] * weights[j]])]
    ELSE [max_w |-> MaxOf({0} \cup {weights[j] : j \in 1..Len(weights)})]

\* The abstract _compute: accumulated states -> the metric value
\* (fixed point, two decimals; 0 where the quotient is undefined).
Compute_(fn, states) ==
    IF fn = "calibration"
    THEN IF "den" \in DOMAIN states /\ states["den"] # 0
         THEN (states["num"] * 100) \div states["den"] ELSE 0
    ELSE IF "max_w" \in DOMAIN states THEN states["max_w"] ELSE 0

\* TestMetric._aggregate(states, new_states): the dict states after the call.
AggregateOverwrite(states, new_states) ==
    [k \in (DOMAIN states) \cup (DOMAIN new_states) |->
        IF k \in DOMAIN new_states THEN new_states[k] ELSE states[k]]
Aggregate(states, new_states) ==
    [k \in (DOMAIN states) \cup (DOMAIN new_states) |->
        (IF k \in DOMAIN states THEN states[k] ELSE 0)
        + (IF k \in DOMAIN new_states THEN new_states[k] ELSE 0)]

\* The window membership test of compute.
WindowIncludesOffByOne(n, w, i) == n - w < i
WindowIncludes(n, w, i) == n - w <= i

\* torch.cat(aggregated_list) after dist.all_gather(aggregated_list, v):
\* the contributions of ranks 0 .. world-1, concatenated in rank order.
\* contrib[q] is what rank q handed to the collective.
RECURSIVE CatRanks(_, _)
CatRanks(contrib, world) ==
    IF world = 0 THEN <<>>
    ELSE CatRanks(contrib, world - 1) \o contrib[world - 1]

\* model_outs[i] (steps count from 0, sequences from 1).
StepBatch(outs, i) == outs[i + 1]

AllGatherOwnOnly(contrib, world, r) == contrib[r]
AllGather(contrib, world, r) == CatRanks(contrib, world)

Kinds == {"lifetime", "window", "local_lifetime", "local_window"}

\* _aggregate(d[name], new_states) on one of the four dicts of state dicts.
AggregateInto(d, name, new_states) ==
    [d EXCEPT ![name] = Aggregate(@, new_states)]

\* Which of the four accumulators step i is aggregated into (the guards of
\* the four _aggregate calls).
AggregatedKinds(fl, n, w, i) ==
    {k \in Kinds :
        \/ k = "lifetime" /\ fl.compute_lifetime_metric
        \/ k = "window" /\ fl.compute_window_metric /\ WindowIncludes(n, w, i)
        \/ k = "local_lifetime" /\ fl.local_compute_lifetime_metric
        \/ k = "local_window" /\ fl.local_compute_window_metric
                              /\ WindowIncludes(n, w, i)}

\* The body of `for task_info in self._rec_tasks` for one task at step i:
\* a is the record of the four dicts, agg_out the gathered tensors
\* (aggregated_model_out) and local_out the rank's own batch (model_outs[i]).
\* The two global dicts aggregate `states`, the two local ones `local_states`.
TaskIteration(a, fl, fn, task, agg_out, local_out, n, w, i) ==
    LET states == GetStates(fn, agg_out[task.label_name],
                            agg_out[task.prediction_name],
                            agg_out[task.weight_name],
                            agg_out[task.tensor_name])
        local_states == GetStates(fn, local_out[task.label_name],
                                  local_out[task.prediction_name],
                                  local_out[task.weight_name],
                                  local_out[task.tensor_name])
    IN  [k \in Kinds |->
            IF k \in AggregatedKinds(fl, n, w, i)
            THEN AggregateInto(a[k], task.name,
                               IF k \in {"lifetime", "window"}
                               THEN states ELSE local_states)
            ELSE a[k]]

RECURSIVE TasksIteration(_, _, _, _, _, _, _, _, _, _)
TasksIteration(a, fl, fn, tasks, j, agg_out, local_out, n, w, i) ==
    IF j > Len(tasks) THEN a
    ELSE TasksIteration(
             TaskIteration(a, fl, fn, tasks[j], agg_out, local_out, n, w, i),
             fl, fn, tasks, j + 1, agg_out, local_out, n, w, i)

\* The four metric dicts compute returns.
FinalMetrics(a, fl, fn, tasks) ==
    LET names == {tasks[j].name : j \in 1..Len(tasks)}
        on == [lifetime       |-> fl.compute_lifetime_metric,
               window         |-> fl.compute_window_metric,
               local_lifetime |-> fl.local_compute_lifetime_metric,
               local_window   |-> fl.local_compute_window_metric]
    IN  [k \in Kinds |->
            [t \in names |-> IF on[k] THEN Compute_(fn, a[k][t]) ELSE 0]]

\* lifetime_states, window_states, ... = ({name: {} for each task} four times)
EmptyStates(tasks) ==
    [k \in Kinds |-> [t \in {tasks[j].name : j \in 1..Len(tasks)} |-> [x \in {} |-> 0]]]

----------------------------------------------------------------------------
(* TestMetric.compute run by every rank of one process group, on batches   *)
(* each rank generated for itself.                                         *)

MaxSteps == 3
MaxWindow == 3

WorldSizes == {1, 2}
BatchSizes == {2}
PriorRngStates == {0, 1}
Seeds == {42}
TaskNamesArg == <<"t1", "t2">>

Ranks == 0 .. (world_size - 1)
rec_tasks == gen_test_tasks(TaskNamesArg)

\* The flag settings explored: the constructor's defaults (all four on, what
\* every caller in the harness uses) and each setting with one flag off.
FlagNames == {"compute_lifetime_metric", "compute_window_metric",
              "local_compute_lifetime_metric", "local_compute_window_metric"}
FlagSets ==
    {[f \in FlagNames |-> TRUE]}
    \cup {[f \in FlagNames |-> f # off] : off \in FlagNames}

AllFlags == \A f \in DOMAIN flags : flags[f]

ComputeInit ==
    /\ world_size \in WorldSizes
    /\ batch_size \in BatchSizes
    /\ nsteps \in 0..MaxSteps
    /\ batch_window_size \in 0..MaxWindow
    /\ flags \in FlagSets
    /\ state_fn \in StateFns
    /\ seed \in {None} \cup {Some(sd) : sd \in Seeds}
    /\ torch_rng \in [Ranks -> PriorRngStates]
    /\ prior_rng = torch_rng
    /\ model_outs = [r \in Ranks |-> <<>>]
    /\ cpc = [r \in Ranks |-> "gen"]
    /\ step_i = [r \in Ranks |-> 0]
    /\ posted = [r \in Ranks |-> <<>>]
    /\ aggregated_model_out = [r \in Ranks |-> [k \in {} |-> 0]]
    /\ acc = [r \in Ranks |-> EmptyStates(rec_tasks)]
    /\ agg_log = [r \in Ranks |-> [k \in Kinds |-> {}]]
    /\ metrics = [r \in Ranks |-> None]

ComputeIdle ==
    /\ world_size = 0
    /\ batch_size = 0
    /\ nsteps = 0
    /\ batch_window_size = 0
    /\ flags = [f \in {} |-> TRUE]
    /\ state_fn = "calibration"
    /\ seed = None
    /\ torch_rng = <<>>
    /\ prior_rng = <<>>
    /\ model_outs = <<>>
    /\ cpc = <<>>
    /\ step_i = <<>>
    /\ posted = <<>>
    /\ aggregated_model_out = <<>>
    /\ acc = <<>>
    /\ agg_log = <<>>
    /\ metrics = <<>>

computeArgs == <<world_size, batch_size, nsteps, batch_window_size, flags,
                 state_fn, seed, prior_rng>>

\* The helper builds model_outs: nsteps entries, every task's batch drawn by
\* gen_test_batch from the rank's own generator.
GenerateModelOuts(r) ==
    /\ cpc[r] = "gen"
    /\ LET g == GenModelOuts(torch_rng[r], rec_tasks, nsteps, batch_size,
                             None, None, None, seed)
       IN  /\ model_outs' = [model_outs EXCEPT ![r] = g.outs]
           /\ torch_rng' = [torch_rng EXCEPT ![r] = g.rng]
    /\ cpc' = [cpc EXCEPT ![r] = IF nsteps = 0 THEN "finish" ELSE "loop"]
    /\ UNCHANGED <<computeArgs, step_i, posted, aggregated_model_out, acc,
                   agg_log, metrics>>

\* Rank r enters the all_gather calls of step i: it hands over its batch.
EnterAllGather(r) ==
    /\ cpc[r] = "loop"
    /\ Len(posted[r]) = step_i[r]
    /\ posted' = [posted EXCEPT ![r] = Append(@, StepBatch(model_outs[r], step_i[r]))]
    /\ UNCHANGED <<computeArgs, torch_rng, model_outs, cpc, step_i,
                   aggregated_model_out, acc, agg_log, metrics>>

\* The all_gather calls of step i return once every rank has entered them;
\* rank r then runs the rest of iteration i.
FinishStep(r) ==
    /\ cpc[r] = "loop"
    /\ Len(posted[r]) = step_i[r] + 1
    /\ \A q \in Ranks : Len(posted[q]) >= step_i[r] + 1
    /\ LET i == step_i[r]
           own == StepBatch(model_outs[r], i)
           gathered ==
               [k \in DOMAIN own |->
                   AllGather([q \in Ranks |-> posted[q][i + 1][k]],
                             world_size, r)]
           agg_out == DictMerge(aggregated_model_out[r], gathered)
       IN  /\ aggregated_model_out' =
                 [aggregated_model_out EXCEPT ![r] = agg_out]
           /\ acc' = [acc EXCEPT ![r] =
                 TasksIteration(@, flags, state_fn, rec_tasks, 1, agg_out,
                                own, nsteps, batch_window_size, i)]
           /\ agg_log' = [agg_log EXCEPT ![r] =
                 [k \in Kinds |->
                     IF k \in AggregatedKinds(flags, nsteps,
                                              batch_window_size, i)
                     THEN @[k] \cup {i} ELSE @[k]]]
           /\ step_i' = [step_i EXCEPT ![r] = i + 1]
           /\ cpc' = [cpc EXCEPT ![r] =
                 IF i + 1 = nsteps THEN "finish" ELSE "loop"]
    /\ UNCHANGED <<computeArgs, torch_rng, model_outs, posted, metrics>>

\* The loop is over: the four metric dicts are computed and returned.
ReturnMetrics(r) ==
    /\ cpc[r] = "finish"
    /\ metrics' = [metrics EXCEPT ![r] =
           Some(FinalMetrics(acc[r], flags, state_fn, rec_tasks))]
    /\ cpc' = [cpc EXCEPT ![r] = "done"]
    /\ UNCHANGED <<computeArgs, torch_rng, model_outs, step_i, posted,
                   aggregated_model_out, acc, agg_log>>


----------------------------------------------------------------------------
(* The worker entry points metric_test_helper and sync_test_helper, run by *)
(* every rank of one elastic launch.  A worker's code is laid out as the   *)
(* sequence of operations its control flow performs (its program); the     *)
(* actions below execute one operation each.                               *)

BATCH_WINDOW_SIZE == 5
MaxHelperSteps == 2

LaunchWorldSizes == {1, 2, 3}
MetricWorldSizes == {1, 2}
HelperBatchSizes == {2}
HelperTaskNames == <<"t1", "t2">>
TargetClasses == {"NEMetric", "AUCMetric", "AUPRCMetric", "RAUCMetric"}

\* get_launch_config
get_launch_config_one_restart(world) ==
    [min_nodes |-> 1, max_nodes |-> 1, nproc_per_node |-> world,
     rdzv_backend |-> "c10d", start_method |-> "spawn",
     monitor_interval |-> 1, max_restarts |-> 1]
get_launch_config(world) ==
    [min_nodes |-> 1, max_nodes |-> 1, nproc_per_node |-> world,
     rdzv_backend |-> "c10d", start_method |-> "spawn",
     monitor_interval |-> 1, max_restarts |-> 0]

Op(name, arg) == [op |-> name, arg |-> arg]

RECURSIVE Flatten(_)
Flatten(ss) == IF ss = <<>> THEN <<>> ELSE Head(ss) \o Flatten(Tail(ss))

\* Keys of one entry of model_outs: label, prediction, weight and tensor of
\* every task.
NumBatchKeys(names) == 4 * Len(names)

\* window_size handed to the target by get_target_rec_metric_value
TargetWindowSizeValueHelper(world, bsz, bws) == world * bsz * bws
\* window_size handed to the target by sync_test_helper
TargetWindowSizeSyncHelper(world, bsz, bws) == bws * world

\* random.uniform(1.0, 5.0): the two ends of the interval
\* (in seconds).
TimeLapses == {1, 5}

\* gen_test_timestamps(nsteps): the lists its loop can build from
\* timestamps = [0.0] * nsteps, entry `step` being entry step - 1 plus a
\* time lapse.
RECURSIVE TimestampsFrom(_, _, _)
TimestampsFrom(ts, step, n) ==
    IF step >= n THEN {ts}
    ELSE UNION {TimestampsFrom([ts EXCEPT ![step + 1] = ts[step] + time_lapse],
                               step + 1, n) : time_lapse \in TimeLapses}
gen_test_timestamps(n) == TimestampsFrom([j \in 1..n |-> 0], 1, n)

\* timestamps[i], the value the patched clock is set to before update i.
ClockAtFirst(ts, i) == ts[1]
ClockAt(ts, i) == ts[i + 1]

\* for i in range(nsteps): target_metric_obj.update(...)
TargetUpdatesReversed(n, phase) == [j \in 1..n |-> Op("update", <<n - j, phase>>)]
TargetUpdates(n, phase) == [j \in 1..n |-> Op("update", <<j - 1, phase>>)]

\* test_metric_obj.compute(model_outs, n, ...): the dist.all_gather calls of
\* its loop, one per step and key, issued when a test class is given.
ReferenceComputeRankZeroOnly(rank, has_test, n, names) ==
    IF has_test /\ rank = 0
    THEN [j \in 1..(n * NumBatchKeys(names)) |->
             Op("all_gather", <<(j - 1) \div NumBatchKeys(names),
                                (j - 1) % NumBatchKeys(names)>>)]
    ELSE <<>>
ReferenceCompute(rank, has_test, n, names) ==
    IF has_test
    THEN [j \in 1..(n * NumBatchKeys(names)) |->
             Op("all_gather", <<(j - 1) \div NumBatchKeys(names),
                                (j - 1) % NumBatchKeys(names)>>)]
    ELSE <<>>

\* The classes metric_test_helper compares no lifetime values for.
SkipsLifetimeAucOnly(clazz) == clazz = "AUCMetric"
SkipsLifetime(clazz) == clazz \in {"AUCMetric", "AUPRCMetric", "RAUCMetric"}

\* The assertions of metric_test_helper, in order.
MetricComparisons(rank, clazz, names) ==
    IF rank = 0
    THEN Flatten([j \in 1..Len(names) |->
             (IF ~SkipsLifetime(clazz)
              THEN <<Op("compare", <<names[j], "lifetime", 1>>),
                     Op("compare", <<names[j], "local_lifetime", 1>>)>>
              ELSE <<>>)
             \o <<Op("compare", <<names[j], "window", 1>>),
                  Op("compare", <<names[j], "local_window", 1>>)>>])
    ELSE <<>>

\* metric_test_helper with rec_metric_value_test_helper inlined.
MetricTestHelperNoDestroy(rank, a) ==
    <<Op("init_process_group", <<>>)>>
    \o (IF a.is_time_dependent
        THEN <<Op("gen_test_timestamps", <<a.nsteps>>)>> ELSE <<>>)
    \o <<Op("construct", <<TargetWindowSizeValueHelper(
                            a.world_size, a.batch_size, a.batch_window_size)>>)>>
    \o TargetUpdates(a.nsteps, 1)
    \o <<Op("compute", <<1>>), Op("local_compute", <<>>)>>
    \o ReferenceCompute(rank, TRUE, a.nsteps, a.task_names)
    \o MetricComparisons(rank, a.target_clazz, a.task_names)
MetricTestHelper(rank, a) ==
    <<Op("init_process_group", <<>>)>>
    \o (IF a.is_time_dependent
        THEN <<Op("gen_test_timestamps", <<a.nsteps>>)>> ELSE <<>>)
    \o <<Op("construct", <<TargetWindowSizeValueHelper(
                            a.world_size, a.batch_size, a.batch_window_size)>>)>>
    \o TargetUpdates(a.nsteps, 1)
    \o <<Op("compute", <<1>>), Op("local_compute", <<>>)>>
    \o ReferenceCompute(rank, TRUE, a.nsteps, a.task_names)
    \o MetricComparisons(rank, a.target_clazz, a.task_names)
    \o <<Op("destroy_process_group", <<>>)>>

\* The uneven numbers of updates of sync_test_helper.
SyncUpdatesNotReversed(rank, phase) ==
    IF rank = 0 THEN 3 ELSE IF rank = 1 THEN 1 ELSE 0
SyncUpdates(rank, phase) ==
    IF rank = 0 THEN (IF phase = 1 THEN 3 ELSE 1)
    ELSE IF rank = 1 THEN (IF phase = 1 THEN 1 ELSE 3)
    ELSE 0

\* The assertion of sync_test_helper after each compute: rank 0 compares the
\* window value of the first task (under either of the two key spellings).
SyncComparison(rank, names, phase) ==
    IF rank = 0
    THEN <<Op("compare", <<names[1], "window", phase>>)>>
    ELSE <<>>

\* sync_test_helper.
SyncTestHelper(rank, a) ==
    <<Op("init_process_group", <<>>),
      Op("construct", <<TargetWindowSizeSyncHelper(
                            a.world_size, a.batch_size, a.batch_window_size)>>)>>
    \o TargetUpdates(SyncUpdates(rank, 1), 1)
    \o ReferenceCompute(rank, a.has_test_clazz, 2, a.task_names)
    \o <<Op("compute", <<1>>)>>
    \o SyncComparison(rank, a.task_names, 1)
    \o <<Op("reset", <<>>)>>
    \o TargetUpdates(SyncUpdates(rank, 2), 2)
    \o <<Op("compute", <<2>>)>>
    \o SyncComparison(rank, a.task_names, 2)
    \o <<Op("destroy_process_group", <<>>)>>

\* The entry point the launcher starts on rank r.
EntryPoint(r) ==
    IF helper = "metric" THEN MetricTestHelper(r, w_args)
    ELSE SyncTestHelper(r, w_args)

Program(r) == prog[r]

\* Workers of the launch: RANK runs over 0 .. WORLD_SIZE - 1.
Workers == 0 .. (lc.nproc_per_node - 1)

Running(r) ==
    r \in Workers /\ wstatus[r] = "running" /\ wpc[r] <= Len(Program(r))
Alive(r) == wstatus[r] \in {"running", "in_collective"}
NextOp(r) == Program(r)[wpc[r]]
Advance(r) == wpc' = [wpc EXCEPT ![r] = @ + 1]

IsCollective(o) == o.op \in {"all_gather", "compute"}

NoTarget ==
    [window_size |-> None, updates |-> 0, computes |-> 0, resets |-> 0,
     clock |-> <<>>]

\* time.monotonic of the target's module: not patched, or a Mock whose
\* return_value is unset (None) or set.
NotPatched == [patched |-> FALSE, return_value |-> None]

HelperArgs ==
    [world_size : LaunchWorldSizes, batch_size : HelperBatchSizes,
     batch_window_size : {BATCH_WINDOW_SIZE}, nsteps : 1..MaxHelperSteps,
     target_clazz : TargetClasses, task_names : {HelperTaskNames},
     has_test_clazz : BOOLEAN, is_time_dependent : BOOLEAN]

\* A target value that is off beyond tolerance: of which rank, task, kind
\* and compute (phase).
Faults ==
    [rank : {0, 1}, task : {"t1", "t2"}, kind : {"lifetime", "window"},
     phase : {1, 2}]

WorkersInit ==
    /\ helper \in {"metric", "sync"}
    /\ w_args \in HelperArgs
    \* metric_test_helper always has a test class and runs the launcher's
    \* test_nsteps; sync_test_helper takes neither nsteps nor a class choice
    \* that changes its comparisons.
    /\ helper = "metric" =>
          (w_args.has_test_clazz /\ w_args.world_size \in MetricWorldSizes)
    /\ helper = "sync" =>
          /\ w_args.nsteps = 1 /\ w_args.target_clazz = "NEMetric"
          /\ ~w_args.is_time_dependent
    /\ fault \in {None} \cup
          {Some(f) : f \in {g \in Faults :
                              /\ g.rank < w_args.world_size
                              /\ helper = "metric" => g.phase = 1}}
    /\ lc = get_launch_config(w_args.world_size)
    /\ restarts = 0
    /\ runs = [r \in Workers |-> 1]
    /\ wstatus = [r \in Workers |-> "running"]
    /\ prog = [r \in Workers |-> EntryPoint(r)]
    /\ wpc = [r \in Workers |-> 1]
    /\ pg = [r \in Workers |-> "none"]
    /\ target = [r \in Workers |-> NoTarget]
    /\ coll = [r \in Workers |-> <<>>]
    /\ compared = [r \in Workers |-> {}]
    /\ timestamps = [r \in Workers |-> None]
    /\ time_mock = [r \in Workers |-> NotPatched]
    /\ events = [r \in Workers |-> <<>>]

WorkersIdle ==
    /\ helper = "none"
    /\ w_args = <<>>
    /\ fault = None
    /\ lc = [nproc_per_node |-> 0, max_restarts |-> 0]
    /\ restarts = 0
    /\ runs = <<>>
    /\ wstatus = <<>>
    /\ prog = <<>>
    /\ wpc = <<>>
    /\ pg = <<>>
    /\ target = <<>>
    /\ coll = <<>>
    /\ compared = <<>>
    /\ timestamps = <<>>
    /\ time_mock = <<>>
    /\ events = <<>>

launchVars == <<helper, w_args, fault, lc, restarts, runs, prog>>

\* The entry point on rank r makes the call o: it joins the rank's history.
Log(r, o) == events' = [events EXCEPT ![r] = Append(@, o)]

\* dist.init_process_group(backend="gloo", world_size, rank)
InitProcessGroup(r) ==
    /\ Running(r) /\ NextOp(r).op = "init_process_group"
    /\ pg' = [pg EXCEPT ![r] = "initialized"]
    /\ Advance(r) /\ Log(r, NextOp(r))
    /\ UNCHANGED <<launchVars, wstatus, target, coll, compared, timestamps,
                   time_mock>>

\* timestamps = gen_test_timestamps(nsteps), then
\* `with patch(<target module>.time.monotonic) as time_mock`.
GenTestTimestamps(r) ==
    /\ Running(r) /\ NextOp(r).op = "gen_test_timestamps"
    /\ \E ts \in gen_test_timestamps(NextOp(r).arg[1]) :
          timestamps' = [timestamps EXCEPT ![r] = Some(ts)]
    /\ time_mock' = [time_mock EXCEPT ![r] =
                        [patched |-> TRUE, return_value |-> None]]
    /\ Advance(r) /\ Log(r, NextOp(r))
    /\ UNCHANGED <<launchVars, wstatus, pg, target, coll, compared>>

\* target_clazz(world_size=..., window_size=..., ...)
ConstructTarget(r) ==
    /\ Running(r) /\ NextOp(r).op = "construct"
    /\ target' = [target EXCEPT ![r] =
           [NoTarget EXCEPT !.window_size = Some(NextOp(r).arg[1])]]
    /\ Advance(r) /\ Log(r, NextOp(r))
    /\ UNCHANGED <<launchVars, wstatus, pg, coll, compared, timestamps,
                   time_mock>>

\* Step i of the update loop: with timestamps given,
\* time_mock.return_value = timestamps[i]; then target_metric_obj.update(...),
\* in which a time-dependent target reads its (patched) clock.
TargetUpdate(r) ==
    /\ Running(r) /\ NextOp(r).op = "update"
    /\ LET i  == NextOp(r).arg[1]
           tm == IF timestamps[r] # None
                 THEN [time_mock[r] EXCEPT
                          !.return_value = Some(ClockAt(The(timestamps[r]), i))]
                 ELSE time_mock[r]
       IN  /\ time_mock' = [time_mock EXCEPT ![r] = tm]
           /\ target' = [target EXCEPT
                  ![r].updates = @ + 1,
                  ![r].clock = IF tm.patched /\ tm.return_value # None
                               THEN Append(@, The(tm.return_value)) ELSE @]
    /\ Advance(r) /\ Log(r, NextOp(r))
    /\ UNCHANGED <<launchVars, wstatus, pg, coll, compared, timestamps>>

\* target_metric_obj.local_compute(): no communication.  It is the last
\* call of get_target_rec_metric_value, so the patch of the clock ends here.
TargetLocalCompute(r) ==
    /\ Running(r) /\ NextOp(r).op = "local_compute"
    /\ time_mock' = [time_mock EXCEPT ![r] = NotPatched]
    /\ Advance(r) /\ Log(r, NextOp(r))
    /\ UNCHANGED <<launchVars, wstatus, pg, target, coll, compared, timestamps>>

\* target_metric_obj.reset()
TargetReset(r) ==
    /\ Running(r) /\ NextOp(r).op = "reset"
    /\ target' = [target EXCEPT ![r].updates = 0, ![r].resets = @ + 1]
    /\ Advance(r) /\ Log(r, NextOp(r))
    /\ UNCHANGED <<launchVars, wstatus, pg, coll, compared, timestamps,
                   time_mock>>

\* Rank r calls dist.all_gather or target_metric_obj.compute(): it enters
\* the collective and blocks in it.
EnterCollective(r) ==
    /\ Running(r) /\ IsCollective(NextOp(r))
    /\ coll' = [coll EXCEPT ![r] = Append(@, NextOp(r))]
    /\ wstatus' = [wstatus EXCEPT ![r] = "in_collective"]
    /\ Log(r, NextOp(r))
    /\ UNCHANGED <<launchVars, wpc, pg, target, compared, timestamps, time_mock>>

\* The collective rank r blocks in completes once every rank of the group
\* has entered the same collective as its n-th one.
LeaveCollective(r) ==
    /\ r \in Workers /\ wstatus[r] = "in_collective"
    /\ \A q \in Workers :
          /\ Len(coll[q]) >= Len(coll[r])
          /\ coll[q][Len(coll[r])] = coll[r][Len(coll[r])]
    /\ target' = IF NextOp(r).op = "compute"
                 THEN [target EXCEPT ![r].computes = @ + 1]
                 ELSE target
    /\ wstatus' = [wstatus EXCEPT ![r] = "running"]
    /\ Advance(r)
    /\ UNCHANGED <<launchVars, pg, coll, compared, timestamps, time_mock,
                   events>>

\* assert torch.allclose(target value, reference value) on rank r.  Without
\* a test class the reference dicts are empty and the lookup raises; with a
\* mismatch beyond tolerance the assertion fails.  Either way the exception
\* leaves the entry point at once.
Compare(r) ==
    /\ Running(r) /\ NextOp(r).op = "compare"
    /\ LET a == NextOp(r).arg
           v == [rank |-> r, task |-> a[1], kind |-> a[2], phase |-> a[3]]
       IN  IF ~w_args.has_test_clazz
           THEN /\ wstatus' = [wstatus EXCEPT ![r] = "failed"]
                /\ UNCHANGED <<wpc, compared>>
           ELSE /\ compared' = [compared EXCEPT ![r] = @ \cup {a}]
                /\ IF fault = Some(v)
                   THEN /\ wstatus' = [wstatus EXCEPT ![r] = "failed"]
                        /\ UNCHANGED wpc
                   ELSE /\ Advance(r)
                        /\ UNCHANGED wstatus
    /\ Log(r, NextOp(r))
    /\ UNCHANGED <<launchVars, pg, target, coll, timestamps, time_mock>>

\* dist.destroy_process_group()
DestroyProcessGroup(r) ==
    /\ Running(r) /\ NextOp(r).op = "destroy_process_group"
    /\ pg' = [pg EXCEPT ![r] = "destroyed"]
    /\ Advance(r) /\ Log(r, NextOp(r))
    /\ UNCHANGED <<launchVars, wstatus, target, coll, compared, timestamps,
                   time_mock>>

\* The entry point returns.
WorkerReturns(r) ==
    /\ r \in Workers
    /\ wstatus[r] = "running" /\ wpc[r] = Len(Program(r)) + 1
    /\ wstatus' = [wstatus EXCEPT ![r] = "succeeded"]
    /\ UNCHANGED <<launchVars, wpc, pg, target, coll, compared, timestamps,
                   time_mock, events>>

\* The elastic agent sees a failed worker: with restarts left it starts the
\* whole group again, with none it stops the workers still running.
AgentHandlesFailure ==
    /\ \E r \in Workers : wstatus[r] = "failed"
    /\ IF restarts < lc.max_restarts
       THEN /\ restarts' = restarts + 1
            /\ runs' = [r \in Workers |-> runs[r] + 1]
            /\ wstatus' = [r \in Workers |-> "running"]
            /\ wpc' = [r \in Workers |-> 1]
            /\ pg' = [r \in Workers |-> "none"]
            /\ target' = [r \in Workers |-> NoTarget]
            /\ coll' = [r \in Workers |-> <<>>]
            /\ compared' = [r \in Workers |-> {}]
            /\ timestamps' = [r \in Workers |-> None]
            /\ time_mock' = [r \in Workers |-> NotPatched]
            /\ events' = [r \in Workers |-> <<>>]
       ELSE /\ \E r \in Workers : Alive(r)
            /\ wstatus' = [r \in Workers |->
                  IF Alive(r) THEN "terminated" ELSE wstatus[r]]
            /\ UNCHANGED <<restarts, runs, wpc, pg, target, coll, compared,
                           timestamps, time_mock, events>>
    /\ UNCHANGED <<helper, w_args, fault, lc, prog>>

\* Everything rank r can do.
WorkerStep(r) ==
    \/ InitProcessGroup(r) \/ GenTestTimestamps(r) \/ ConstructTarget(r)
    \/ TargetUpdate(r) \/ TargetLocalCompute(r) \/ TargetReset(r)
    \/ EnterCollective(r) \/ LeaveCollective(r) \/ Compare(r)
    \/ DestroyProcessGroup(r) \/ WorkerReturns(r)

----------------------------------------------------------------------------
(* TestMetric._aggregate on tensor objects.  A tensor is an object of the  *)
(* heap: a dict maps a state name to the identity of a tensor, and         *)
(* `states[k] += v` changes the object states[k] refers to, in place.      *)

MaxAggregates == 3

AggTaskNames == {"t1", "t2"}

\* The value dicts _get_states returns here: dicts with different sets of
\* state names, tensors of one shape.
StateMappings ==
    {("num" :> <<1, 2>>),
     ("den" :> <<3, 0>>),
     ("num" :> <<3, 0>> @@ "den" :> <<1, 2>>)}

\* torch.zeros_like(v)
ZerosLike(v) == [j \in DOMAIN v |-> 0]
\* the pointwise sum u + v
TensorAdd(u, v) == [j \in DOMAIN u |-> u[j] + v[j]]

\* A heap cell: the tensor's value, whether _get_states made it, and the
\* value it was made with.
Cell(v, from_get_states) ==
    [value |-> v, input |-> from_get_states, made |-> v]

\* The dict of tensors _get_states returns for the value dict vm: a fresh
\* tensor per state name.  h is the heap, done the part built so far.
RECURSIVE AllocStates(_, _, _)
AllocStates(h, vm, done) ==
    IF DOMAIN done = DOMAIN vm THEN [heap |-> h, states |-> done]
    ELSE LET k == CHOOSE x \in (DOMAIN vm) \ (DOMAIN done) : TRUE
         IN  AllocStates(Append(h, Cell(vm[k], TRUE)), vm,
                         DictSet(done, k, Len(h) + 1))

\* One iteration of the loop of _aggregate, for the item (k, v) of
\* new_states:
\*     if k not in states: states[k] = torch.zeros_like(v)
\*     states[k] += v
AggregateItemAlias(h, states, k, v) ==
    LET st == IF k \notin DOMAIN states THEN DictSet(states, k, v) ELSE states
    IN  [heap   |-> [h EXCEPT ![st[k]].value = TensorAdd(@, h[v].value)],
         states |-> st]
AggregateItemOverwrite(h, states, k, v) ==
    LET fresh == k \notin DOMAIN states
        h1 == IF fresh THEN Append(h, Cell(ZerosLike(h[v].value), FALSE)) ELSE h
        st == IF fresh THEN DictSet(states, k, Len(h1)) ELSE states
    IN  [heap   |-> [h1 EXCEPT ![st[k]].value = h1[v].value],
         states |-> st]
AggregateItem(h, states, k, v) ==
    LET fresh == k \notin DOMAIN states
        h1 == IF fresh THEN Append(h, Cell(ZerosLike(h[v].value), FALSE)) ELSE h
        st == IF fresh THEN DictSet(states, k, Len(h1)) ELSE states
    IN  [heap   |-> [h1 EXCEPT ![st[k]].value = TensorAdd(@, h1[v].value)],
         states |-> st]

\* _aggregate(states, new_states): the heap and the dict states after the
\* loop over new_states.items(); todo holds the names still to visit.
RECURSIVE AggregateLoop(_, _, _, _)
AggregateLoop(h, states, new_states, todo) ==
    IF todo = {} THEN [heap |-> h, states |-> states]
    ELSE LET k == CHOOSE x \in todo : TRUE
             r == AggregateItem(h, states, k, new_states[k])
         IN  AggregateLoop(r.heap, r.states, new_states, todo \ {k})

AggregateInPlace(h, states, new_states) ==
    AggregateLoop(h, states, new_states, DOMAIN new_states)

\* The values of a dict of tensors.
ValuesOf(h, d) == [k \in DOMAIN d |-> h[d[k]].value]

\* The accumulators a dict of states is aggregated into: `states` into the
\* lifetime and window dicts, `local_states` into the two local ones.
KindsFor(is_local) ==
    IF is_local THEN {"local_lifetime", "local_window"}
    ELSE {"lifetime", "window"}

\* The order of the _aggregate calls on one dict of states: lifetime first.
FirstKinds == {"lifetime", "local_lifetime"}

AggregateInit ==
    /\ tensor_heap = <<>>
    /\ got_states = None
    /\ state_dicts = [kind \in Kinds |-> [t \in AggTaskNames |-> EmptyDict]]
    /\ agg_calls = [kind \in Kinds |-> [t \in AggTaskNames |-> <<>>]]
    /\ agg_count = 0

AggregateIdle ==
    /\ tensor_heap = <<>>
    /\ got_states = None
    /\ state_dicts = <<>>
    /\ agg_calls = <<>>
    /\ agg_count = 0

\* states = self._get_states(...) or local_states = self._get_states(...)
\* in the iteration of task t: a dict of fresh tensors.
GetStatesCall(t, is_local, vm) ==
    /\ agg_count < MaxAggregates
    /\ got_states # None => The(got_states).into # {}
    /\ LET r == AllocStates(tensor_heap, vm, EmptyDict)
       IN  /\ tensor_heap' = r.heap
           /\ got_states' = Some([task |-> t, is_local |-> is_local,
                                  states |-> r.states, into |-> {}])
    /\ UNCHANGED <<state_dicts, agg_calls, agg_count>>

\* self._aggregate(<kind>_states[task_info.name], states)
AggregateCall(kind) ==
    /\ agg_count < MaxAggregates
    /\ got_states # None
    /\ LET ns == The(got_states)
       IN  /\ kind \in KindsFor(ns.is_local) \ ns.into
           /\ kind \in FirstKinds => ns.into = {}
           /\ LET r == AggregateInPlace(tensor_heap, state_dicts[kind][ns.task],
                                        ns.states)
              IN  /\ tensor_heap' = r.heap
                  /\ state_dicts' =
                        [state_dicts EXCEPT ![kind][ns.task] = r.states]
           /\ agg_calls' = [agg_calls EXCEPT ![kind][ns.task] =
                               Append(@, ValuesOf(tensor_heap, ns.states))]
           /\ got_states' = Some([ns EXCEPT !.into = @ \cup {kind}])
    /\ agg_count' = agg_count + 1

----------------------------------------------------------------------------
(* Specifications *)

InitPlanner == PlannerInit /\ ComputeIdle /\ WorkersIdle /\ AggregateIdle

GeneratePlannerConstraints ==
    PlannerStep /\ UNCHANGED <<computeVars, workerVars, aggregateVars>>

NextPlanner == GeneratePlannerConstraints

SpecPlanner == InitPlanner /\ [][NextPlanner]_vars

InitCompute == ComputeInit /\ PlannerIdle /\ WorkersIdle /\ AggregateIdle

Generate == \E r \in Ranks : GenerateModelOuts(r) /\ UNCHANGED <<plannerVars, workerVars, aggregateVars>>
Enter == \E r \in Ranks : EnterAllGather(r) /\ UNCHANGED <<plannerVars, workerVars, aggregateVars>>
Finish == \E r \in Ranks : FinishStep(r) /\ UNCHANGED <<plannerVars, workerVars, aggregateVars>>
Return == \E r \in Ranks : ReturnMetrics(r) /\ UNCHANGED <<plannerVars, workerVars, aggregateVars>>

NextCompute == Generate \/ Enter \/ Finish \/ Return

SpecCompute == InitCompute /\ [][NextCompute]_vars

InitWorkers == WorkersInit /\ PlannerIdle /\ ComputeIdle /\ AggregateIdle

otherVars == <<plannerVars, computeVars, aggregateVars>>

InitPg == \E r \in Workers : InitProcessGroup(r) /\ UNCHANGED otherVars
GenTimestamps == \E r \in Workers : GenTestTimestamps(r) /\ UNCHANGED otherVars
Construct == \E r \in Workers : ConstructTarget(r) /\ UNCHANGED otherVars
Update == \E r \in Workers : TargetUpdate(r) /\ UNCHANGED otherVars
LocalCompute == \E r \in Workers : TargetLocalCompute(r) /\ UNCHANGED otherVars
Reset == \E r \in Workers : TargetReset(r) /\ UNCHANGED otherVars
EnterColl == \E r \in Workers : EnterCollective(r) /\ UNCHANGED otherVars
LeaveColl == \E r \in Workers : LeaveCollective(r) /\ UNCHANGED otherVars
CompareValues == \E r \in Workers : Compare(r) /\ UNCHANGED otherVars
DestroyPg == \E r \in Workers : DestroyProcessGroup(r) /\ UNCHANGED otherVars
Returns == \E r \in Workers : WorkerReturns(r) /\ UNCHANGED otherVars
Agent == AgentHandlesFailure /\ UNCHANGED otherVars

NextWorkers ==
    \/ InitPg \/ GenTimestamps \/ Construct \/ Update \/ LocalCompute \/ Reset \/ EnterColl
    \/ LeaveColl \/ CompareValues \/ DestroyPg \/ Returns \/ Agent

SpecWorkers == InitWorkers /\ [][NextWorkers]_vars

InitAggregate == AggregateInit /\ PlannerIdle /\ ComputeIdle /\ WorkersIdle

GetStates_ ==
    \E t \in AggTaskNames, is_local \in BOOLEAN, vm \in StateMappings :
        GetStatesCall(t, is_local, vm)
        /\ UNCHANGED <<plannerVars, computeVars, workerVars>>
Aggregate_ ==
    \E kind \in Kinds :
        AggregateCall(kind) /\ UNCHANGED <<plannerVars, computeVars, workerVars>>

NextAggregate == GetStates_ \/ Aggregate_

SpecAggregate == InitAggregate /\ [][NextAggregate]_vars

\* Every worker is an operating-system process of its own: one that can
\* take a step eventually takes it; so does the agent.
SpecWorkersFair ==
    /\ InitWorkers
    /\ [][NextWorkers]_vars
    /\ \A r \in 0..(MaxOf(LaunchWorldSizes) - 1) :
          WF_vars(WorkerStep(r) /\ UNCHANGED otherVars)
    /\ WF_vars(Agent)

----------------------------------------------------------------------------
(* Properties of generate_planner_constraints *)

TableNamesOf(ts) == {ts[j].name : j \in 1..Len(ts)}

\* The last table of the list that carries the name.
LastTableNamed(ts, name) ==
    ts[MaxOf({j \in 1..Len(ts) : ts[j].name = name})]

\* C2 (as stated): the returned mapping has exactly one entry per table of
\* the list, keyed by the table's name: the number of entries equals the
\* number of tables and the key set is the set of table names.
C2_OneEntryPerTable ==
    PlannerReturned =>
        /\ DOMAIN constraints = TableNamesOf(tables)
        /\ Cardinality(DOMAIN constraints) = Len(tables)

\* C2 (amended): the returned mapping has exactly one entry per distinct
\* table name: its key set is the set of table names, the entry of a name is
\* the constraints record of the last table carrying that name, and the
\* number of entries equals the number of tables exactly when the names are
\* pairwise distinct.
C2_OneEntryPerName ==
    PlannerReturned =>
        /\ DOMAIN constraints = TableNamesOf(tables)
        /\ \A n \in DOMAIN constraints :
              constraints[n] = ParameterConstraintsOf(LastTableNamed(tables, n))
        /\ (Cardinality(DOMAIN constraints) = Len(tables)
              <=> \A j, k \in 1..Len(tables) :
                      tables[j].name = tables[k].name => j = k)

\* Witness: a list of three tables, two of them sharing a name with
\* different sharding types, has been turned into a two-entry mapping.
C2_Witness ==
    /\ PlannerReturned
    /\ Len(tables) = 3
    /\ tables[1].name = tables[3].name
    /\ tables[1].sharding # tables[3].sharding
    /\ tables[2].name # tables[1].name
    /\ Cardinality(DOMAIN constraints) = 2

----------------------------------------------------------------------------
(* Properties of TestMetric.compute *)

Returned(r) == cpc[r] \in {"finish", "done"}

MaxInt(a, b) == IF a >= b THEN a ELSE b

\* C1: with the window flags on, the global windowed and the local windowed
\* accumulations of a finished compute have aggregated exactly the steps
\* max(0, N - W) .. N - 1: every step when W >= N, none when W = 0; and
\* while the loop runs they hold no step outside that range.
C1_WindowMembership ==
    \A r \in Ranks :
        \A k \in {"window", "local_window"} :
            LET on == IF k = "window" THEN flags.compute_window_metric
                      ELSE flags.local_compute_window_metric
                trailing == MaxInt(0, nsteps - batch_window_size) .. (nsteps - 1)
            IN  on =>
                  /\ agg_log[r][k] \subseteq trailing
                  /\ Returned(r) =>
                        /\ agg_log[r][k] = trailing
                        /\ batch_window_size >= nsteps
                              => agg_log[r][k] = 0 .. (nsteps - 1)
                        /\ batch_window_size = 0 => agg_log[r][k] = {}

\* Witness: a compute over three steps with a window of two batches has
\* returned having aggregated steps 1 and 2 only into both windows.
C1_Witness ==
    /\ nsteps = 3 /\ batch_window_size = 2 /\ AllFlags
    /\ \E r \in Ranks :
          /\ cpc[r] = "done"
          /\ agg_log[r]["window"] = {1, 2}
          /\ agg_log[r]["local_window"] = {1, 2}
          /\ agg_log[r]["lifetime"] = {0, 1, 2}

\* The tensor of field `key` at step i as gathered from every rank: the
\* rows of rank 0, then rank 1, ...
RowsOfAllRanks(i, key) ==
    CatRanks([q \in Ranks |-> model_outs[q][i + 1][key]], world_size)

\* The states of step i computed from the rows of every rank.
GlobalStepStates(i, task) ==
    GetStates(state_fn, RowsOfAllRanks(i, task.label_name),
              RowsOfAllRanks(i, task.prediction_name),
              RowsOfAllRanks(i, task.weight_name),
              RowsOfAllRanks(i, task.tensor_name))

\* The states of step i computed from the rows of rank r alone.
LocalStepStates(r, i, task) ==
    GetStates(state_fn, model_outs[r][i + 1][task.label_name],
              model_outs[r][i + 1][task.prediction_name],
              model_outs[r][i + 1][task.weight_name],
              model_outs[r][i + 1][task.tensor_name])

\* Pointwise sum, per state name, of the dicts StepStates(i) for lo <= i <= hi
\* (the empty dict when there is no such step).
SumOfStates(lo, hi, StepStates(_)) ==
    [k \in UNION {DOMAIN StepStates(i) : i \in lo..hi} |->
        SumSeq([j \in 1..(hi - lo + 1) |->
                   IF k \in DOMAIN StepStates(lo + j - 1)
                   THEN StepStates(lo + j - 1)[k] ELSE 0])]

WindowStart == MaxInt(0, nsteps - batch_window_size)

\* C3: on every rank r that has finished the loop with all four flags on,
\* for every task, the global lifetime accumulator is the sum over all steps
\* of the states of the rows gathered from every rank, the local lifetime
\* accumulator the sum over all steps of the states of rank r's own rows,
\* and the two windowed accumulators the same sums over the trailing-window
\* steps.
C3_FourAccumulations ==
    \A r \in Ranks :
        (Returned(r) /\ AllFlags) =>
            \A j \in 1..Len(rec_tasks) :
                LET t == rec_tasks[j]
                    G(i) == GlobalStepStates(i, t)
                    L(i) == LocalStepStates(r, i, t)
                IN  /\ acc[r]["lifetime"][t.name] = SumOfStates(0, nsteps - 1, G)
                    /\ acc[r]["window"][t.name]
                          = SumOfStates(WindowStart, nsteps - 1, G)
                    /\ acc[r]["local_lifetime"][t.name]
                          = SumOfStates(0, nsteps - 1, L)
                    /\ acc[r]["local_window"][t.name]
                          = SumOfStates(WindowStart, nsteps - 1, L)

\* Witness: in a group of two ranks, a rank has finished three steps with a
\* window of one batch; its global accumulators hold rows of the other rank
\* (they differ from its local ones) and its windowed accumulators differ
\* from its lifetime ones.
C3_Witness ==
    /\ world_size = 2 /\ nsteps = 3 /\ batch_window_size = 1 /\ AllFlags
    /\ \E r \in Ranks :
          /\ cpc[r] = "done"
          /\ acc[r]["lifetime"]["t1"] # acc[r]["local_lifetime"]["t1"]
          /\ acc[r]["window"]["t1"] # acc[r]["lifetime"]["t1"]
          /\ acc[r]["local_window"]["t1"] # acc[r]["local_lifetime"]["t1"]
          /\ acc[r]["local_lifetime"]["t1"] # acc[1 - r]["local_lifetime"]["t1"]

\* Pointwise sum over the ranks of a per-rank state dict.
SumOverRanks(D(_)) ==
    [k \in UNION {DOMAIN D(q) : q \in Ranks} |->
        SumSeq([j \in 1..world_size |->
                   IF k \in DOMAIN D(j - 1) THEN D(j - 1)[k] ELSE 0])]

\* C4: for a state function additive over rows, once every rank has
\* finished the loop, the global lifetime (resp. windowed) state a rank
\* holds equals the sum over all ranks of their local lifetime (resp.
\* windowed) states, and every rank holds the same global states.
C4_PartitionIndependent ==
    ((\A r \in Ranks : Returned(r)) /\ Additive(state_fn)) =>
        \A r \in Ranks : \A j \in 1..Len(rec_tasks) :
            LET t == rec_tasks[j].name
                LocalLifetime(q) == acc[q]["local_lifetime"][t]
                LocalWindow(q) == acc[q]["local_window"][t]
            IN  /\ (flags.compute_lifetime_metric
                      /\ flags.local_compute_lifetime_metric)
                    => acc[r]["lifetime"][t] = SumOverRanks(LocalLifetime)
                /\ (flags.compute_window_metric
                      /\ flags.local_compute_window_metric)
                    => acc[r]["window"][t] = SumOverRanks(LocalWindow)
                /\ \A q \in Ranks :
                      /\ acc[r]["lifetime"][t] = acc[q]["lifetime"][t]
                      /\ acc[r]["window"][t] = acc[q]["window"][t]

\* Witness: two ranks fed different rows have both finished two steps under
\* the additive state function; their local states differ and each holds
\* the global state that is the sum of the two.
C4_Witness ==
    /\ world_size = 2 /\ nsteps = 2 /\ batch_window_size = 1 /\ AllFlags
    /\ Additive(state_fn)
    /\ \A r \in Ranks : cpc[r] = "done"
    /\ model_outs[0] # model_outs[1]
    /\ acc[0]["local_lifetime"]["t1"] # acc[1]["local_lifetime"]["t1"]
    /\ acc[0]["local_window"]["t2"] # acc[1]["local_window"]["t2"]
    /\ acc[0]["lifetime"]["t1"]["num"]
          = acc[0]["local_lifetime"]["t1"]["num"]
            + acc[1]["local_lifetime"]["t1"]["num"]
    /\ acc[0]["lifetime"]["t1"]["num"] > acc[0]["local_lifetime"]["t1"]["num"]

\* A run of the whole computation as a function of its inputs: every rank q
\* starts from generator state priors[q], generates its batches, and the
\* loop of compute is folded over the steps for rank r.
RunOuts(priors) ==
    [q \in Ranks |->
        GenModelOuts(priors[q], rec_tasks, nsteps, batch_size,
                     None, None, None, seed).outs]

RECURSIVE RunLoop(_, _, _, _, _)
RunLoop(a, agg_out, i, outs, r) ==
    IF i >= nsteps THEN a
    ELSE LET own == StepBatch(outs[r], i)
             gathered ==
                 [k \in DOMAIN own |->
                     AllGather([q \in Ranks |-> StepBatch(outs[q], i)[k]],
                               world_size, r)]
             agg2 == DictMerge(agg_out, gathered)
         IN  RunLoop(TasksIteration(a, flags, state_fn, rec_tasks, 1, agg2,
                                    own, nsteps, batch_window_size, i),
                     agg2, i + 1, outs, r)

RunMetrics(priors, r) ==
    FinalMetrics(RunLoop(EmptyStates(rec_tasks), [k \in {} |-> 0], 0,
                         RunOuts(priors), r),
                 flags, state_fn, rec_tasks)

\* The generator states of another run: every rank's prior state shifted.
SecondRunShifts == {1, 3}
ShiftedPriors(d) == [q \in Ranks |-> (prior_rng[q] + d) % RngModulus]

\* C10: when gen_test_batch is given a seed, the batches a rank generated
\* are those any other generator state before the call would have given,
\* and the four metric dicts a rank returns are those of any second run
\* with the same arguments and seed, whatever the generator states that
\* run started from and however the ranks of this run were interleaved.
C10_SeededRunsRepeat ==
    seed # None =>
        \A r \in Ranks :
            /\ cpc[r] # "gen" =>
                  \A p \in RngStates :
                      model_outs[r]
                        = GenModelOuts(p, rec_tasks, nsteps, batch_size,
                                       None, None, None, seed).outs
            /\ cpc[r] = "done" =>
                  \A d \in SecondRunShifts :
                      metrics[r] = Some(RunMetrics(ShiftedPriors(d), r))

\* Witness: two ranks that started from different generator states have
\* generated with the seed, finished, and returned equal, non-zero local
\* metrics.
C10_Witness ==
    /\ seed # None /\ world_size = 2 /\ nsteps >= 2 /\ AllFlags
    /\ state_fn = "calibration"
    /\ prior_rng[0] # prior_rng[1]
    /\ \A r \in Ranks : cpc[r] = "done"
    /\ model_outs[0] = model_outs[1]
    /\ The(metrics[0])["local_lifetime"] = The(metrics[1])["local_lifetime"]
    /\ The(metrics[0])["local_window"] = The(metrics[1])["local_window"]
    /\ The(metrics[0])["local_lifetime"]["t1"] # 0
    /\ The(metrics[0])["lifetime"]["t1"] # 0

----------------------------------------------------------------------------
(* Properties of the worker entry points *)

NamesOf(names) == {names[j] : j \in 1..Len(names)}

Ended(r) == wstatus[r] \in {"succeeded", "failed"}

\* C5 (as stated): a metric_test_helper run that completes has compared,
\* for every task name and whatever the target class, each of the four
\* values (lifetime, window, local lifetime, local window).
C5_AllFourCompared ==
    (helper = "metric" /\ \A r \in Workers : wstatus[r] = "succeeded") =>
        \A n \in NamesOf(w_args.task_names) : \A k \in Kinds :
            \E r \in Workers : <<n, k, 1>> \in compared[r]

\* The values metric_test_helper compares on rank r.
MetricCompared(r) ==
    IF r # 0 THEN {}
    ELSE {<<n, k, 1>> :
             n \in NamesOf(w_args.task_names),
             k \in IF w_args.target_clazz
                        \in {"AUCMetric", "AUPRCMetric", "RAUCMetric"}
                   THEN {"window", "local_window"} ELSE Kinds}

\* C5 (amended): a metric_test_helper worker that returns has compared, on
\* rank 0, for every task name the window and the local window value, and
\* the lifetime and local lifetime values too unless the target class is
\* AUCMetric, AUPRCMetric or RAUCMetric; on any other rank it has compared
\* nothing.  No worker compares anything else on the way.
C5_ComparedOnRankZero ==
    helper = "metric" =>
        \A r \in Workers :
            /\ compared[r] \subseteq MetricCompared(r)
            /\ wstatus[r] = "succeeded" => compared[r] = MetricCompared(r)

\* Witness: a two-rank run for AUCMetric has completed; rank 0 made the
\* window and local window comparisons of both tasks and no lifetime one,
\* rank 1 made none.
C5_Witness ==
    /\ helper = "metric" /\ w_args.target_clazz = "AUCMetric"
    /\ lc.nproc_per_node = 2
    /\ \A r \in Workers : wstatus[r] = "succeeded"
    /\ compared[0] = {<<"t1", "window", 1>>, <<"t1", "local_window", 1>>,
                      <<"t2", "window", 1>>, <<"t2", "local_window", 1>>}
    /\ compared[1] = {}

\* C6 (as stated): no worker run of metric_test_helper or sync_test_helper
\* ends, by return or by a failed comparison, with its process group still
\* initialized.
C6_DestroyedOnEveryPath ==
    \A r \in Workers : Ended(r) => pg[r] # "initialized"

\* C6 (amended): a worker that returns from metric_test_helper or
\* sync_test_helper has destroyed the process group it created at entry; a
\* worker that a failed comparison throws out of the entry point leaves its
\* process group initialized.
C6_DestroyedOnReturn ==
    \A r \in Workers :
        /\ wstatus[r] = "succeeded" => pg[r] = "destroyed"
        /\ wstatus[r] = "failed" => pg[r] = "initialized"
        /\ pg[r] = "destroyed" => wpc[r] = Len(prog[r]) + 1

\* Witness: in one launch, rank 1 has returned with its process group
\* destroyed while rank 0 failed a comparison with its group initialized.
C6_Witness ==
    /\ lc.nproc_per_node = 2
    /\ wstatus[1] = "succeeded" /\ pg[1] = "destroyed"
    /\ wstatus[0] = "failed" /\ pg[0] = "initialized"
    /\ w_args.has_test_clazz

\* C7: every entry point that constructs the target hands it
\* window_size = world_size * batch_size * batch_window_size.
C7_WindowSizeInElements ==
    \A r \in Workers :
        target[r].window_size # None =>
            The(target[r].window_size)
              = w_args.world_size * w_args.batch_size * w_args.batch_window_size

\* The collectives of sync_test_helper with a test class, in order: the
\* reference's all_gather of every key of its two steps, then the target's
\* two computes.
SyncCollectives ==
    [j \in 1..(2 * NumBatchKeys(w_args.task_names)) |->
        Op("all_gather", <<(j - 1) \div NumBatchKeys(w_args.task_names),
                           (j - 1) % NumBatchKeys(w_args.task_names)>>)]
    \o <<Op("compute", <<1>>), Op("compute", <<2>>)>>

IsPrefix(p, q) == Len(p) <= Len(q) /\ \A j \in 1..Len(p) : p[j] = q[j]

SyncWithReference == helper = "sync" /\ w_args.has_test_clazz

\* C8: in sync_test_helper run with a test class, whatever the world size
\* and however many updates a rank issued, the collectives in a rank's code
\* are the same list for every rank and a rank has entered a prefix of it;
\* and under fair scheduling of the workers, unless a comparison fails,
\* every rank eventually destroys its process group.
C8_CollectivesAligned ==
    /\ [](SyncWithReference =>
            \A r \in Workers :
                /\ SelectSeq(prog[r], IsCollective) = SyncCollectives
                /\ IsPrefix(coll[r], SyncCollectives))
    /\ <>(SyncWithReference =>
            \/ \A r \in Workers : pg[r] = "destroyed"
            \/ \E r \in Workers : wstatus[r] = "failed")

\* Witness: three ranks, of which rank 2 never updated the target, have
\* all been through every collective and destroyed their process groups.
C8_Witness ==
    /\ SyncWithReference /\ lc.nproc_per_node = 3
    /\ \A r \in Workers :
          /\ wstatus[r] = "succeeded" /\ pg[r] = "destroyed"
          /\ coll[r] = SyncCollectives
          /\ target[r].computes = 2
    /\ target[0].updates = 1 /\ target[1].updates = 3 /\ target[2].updates = 0

\* C9 (as stated): a mismatch beyond tolerance in a target value of any
\* rank ends the run in an assertion failure: with such a mismatch the
\* workers cannot all return.
C9_AnyMismatchFails ==
    (fault # None /\ w_args.has_test_clazz) =>
        ~(\A r \in Workers : wstatus[r] = "succeeded")

\* The values the launched entry point compares (all of them on rank 0).
ComparedValues ==
    IF helper = "metric" THEN MetricCompared(0)
    ELSE {<<w_args.task_names[1], "window", ph>> : ph \in {1, 2}}

FaultCompared ==
    /\ fault # None
    /\ The(fault).rank = 0
    /\ <<The(fault).task, The(fault).kind, The(fault).phase>> \in ComparedValues

\* C9 (amended): a mismatch beyond tolerance ends the run in an assertion
\* failure when it is in a value rank 0 compares: rank 0 then never
\* returns, and only rank 0 ever fails, for that reason or because there is
\* no test class; a mismatch on another rank or in a value that is not
\* compared lets every worker return.  No worker is ever restarted:
\* max_restarts is 0 and each entry point is started exactly once.
C9_ComparedMismatchFails ==
    /\ lc.max_restarts = 0 /\ restarts = 0
    /\ \A r \in Workers :
          /\ runs[r] = 1
          /\ (r = 0 /\ wstatus[r] = "succeeded") => ~FaultCompared
          /\ wstatus[r] = "failed" =>
                (r = 0 /\ (FaultCompared \/ ~w_args.has_test_clazz))

\* Witness: rank 0 failed on a mismatch in a compared value, the agent
\* stopped rank 1, and nothing was started again.
C9_Witness ==
    /\ lc.nproc_per_node = 2 /\ FaultCompared /\ w_args.has_test_clazz
    /\ wstatus[0] = "failed" /\ wstatus[1] = "terminated"
    /\ restarts = 0 /\ runs[0] = 1 /\ runs[1] = 1

----------------------------------------------------------------------------
(* Properties of the time-dependent variant *)

\* The list ts has n entries, starts at 0 and every gap lies between 1 and 5.
TimestampsWellFormed(ts, n) ==
    /\ Len(ts) = n
    /\ n >= 1 => ts[1] = 0
    /\ \A j \in 2..Len(ts) : ts[j] - ts[j - 1] >= 1 /\ ts[j] - ts[j - 1] <= 5

\* C11: in the time-dependent variant the list gen_test_timestamps(nsteps)
\* returned has exactly nsteps entries, starts at 0 and increases strictly,
\* every gap between 1 and 5; the patched clock returns timestamps[i] when
\* the target is updated at step i, so the clock values successive target
\* updates have seen increase strictly.
C11_ClockFollowsTimestamps ==
    \A r \in Workers :
        timestamps[r] # None =>
            LET ts    == The(timestamps[r])
                clock == target[r].clock
            IN  /\ w_args.is_time_dependent
                /\ TimestampsWellFormed(ts, w_args.nsteps)
                /\ Len(clock) = target[r].updates
                /\ \A j \in 1..Len(clock) : clock[j] = ts[j]
                /\ \A j \in 2..Len(clock) : clock[j - 1] < clock[j]

\* Some rank of a time-dependent run has made two updates under the patch.
C11_Witness ==
    \E r \in Workers :
        /\ timestamps[r] # None
        /\ target[r].updates >= 2
        /\ Len(target[r].clock) >= 2

----------------------------------------------------------------------------
(* Properties of the order of calls in a worker *)

\* The positions of the calls named name in the history ev.
IndexesOf(ev, name) == {j \in 1..Len(ev) : ev[j].op = name}

\* Every call named a in ev comes before every call named b.
AllBefore(ev, a, b) ==
    \A i \in IndexesOf(ev, a), j \in IndexesOf(ev, b) : i < j

\* A call named a precedes position j of ev.
Preceded(ev, a, j) == \E i \in IndexesOf(ev, a) : i < j

\* The update calls of ev, in order.
UpdatesOf(ev) == SelectSeq(ev, LAMBDA o : o.op = "update")

\* C12: in a harness run (metric_test_helper), on each rank: the process
\* group is initialized before the target is constructed and before any
\* collective; the target gets exactly nsteps updates, for steps 0, 1, ...
\* in this order; the target's compute comes only after the last update,
\* its local_compute only after compute, the comparisons after both; the
\* teardown of the process group is the last call, nothing follows it, and
\* a worker that returns has made it.
C12_HarnessEventOrder ==
    helper = "metric" =>
        \A r \in Workers :
            LET ev  == events[r]
                ups == UpdatesOf(ev)
            IN  /\ \A j \in 1..Len(ev) :
                      ev[j].op \in {"construct", "all_gather", "compute"}
                          => Preceded(ev, "init_process_group", j)
                /\ Len(ups) <= w_args.nsteps
                /\ \A j \in 1..Len(ups) : ups[j].arg[1] = j - 1
                /\ \A j \in IndexesOf(ev, "compute") :
                      /\ Len(UpdatesOf(SubSeq(ev, 1, j))) = w_args.nsteps
                      /\ Preceded(ev, "construct", j)
                /\ AllBefore(ev, "update", "compute")
                /\ \A j \in IndexesOf(ev, "local_compute") :
                      Preceded(ev, "compute", j)
                /\ \A j \in IndexesOf(ev, "compare") :
                      Preceded(ev, "compute", j) /\ Preceded(ev, "local_compute", j)
                /\ \A j \in IndexesOf(ev, "destroy_process_group") : j = Len(ev)
                /\ wstatus[r] = "succeeded" =>
                      /\ ev[Len(ev)].op = "destroy_process_group"
                      /\ Len(ups) = w_args.nsteps
                      /\ Cardinality(IndexesOf(ev, "compute")) = 1
                      /\ Cardinality(IndexesOf(ev, "local_compute")) = 1

\* A harness run of two steps on two ranks in which rank 0 has compared and
\* both ranks have returned.
C12_Witness ==
    /\ helper = "metric" /\ w_args.nsteps = 2 /\ w_args.world_size = 2
    /\ \A r \in Workers : wstatus[r] = "succeeded"
    /\ IndexesOf(events[0], "compare") # {}
    /\ Len(UpdatesOf(events[1])) = 2

\* The positions in ev of the target's compute of the given phase.
ComputesOf(ev, phase) ==
    {j \in IndexesOf(ev, "compute") : ev[j].arg = <<phase>>}

\* The number of updates of the given phase among the first j calls of ev.
UpdatesBefore(ev, phase, j) ==
    Cardinality({i \in IndexesOf(ev, "update") : i < j /\ ev[i].arg[2] = phase})

\* C13: in sync_test_helper rank 0 has issued 3 updates and rank 1 one when
\* they call the first compute; they have issued 1 and 3 second-phase
\* updates when they call the second compute; on every rank reset is called
\* after the first compute and before every second-phase update, so the
\* updates the target holds at the second compute are the second-phase ones
\* only.
C13_UnevenThenReversed ==
    helper = "sync" =>
        \A r \in Workers :
            LET ev == events[r]
            IN  /\ \A j \in ComputesOf(ev, 1) :
                      /\ r = 0 => UpdatesBefore(ev, 1, j) = 3
                      /\ r = 1 => UpdatesBefore(ev, 1, j) = 1
                      /\ UpdatesBefore(ev, 2, j) = 0
                /\ \A j \in IndexesOf(ev, "reset") :
                      /\ \E i \in ComputesOf(ev, 1) : i < j
                      /\ UpdatesBefore(ev, 2, j) = 0
                /\ \A j \in IndexesOf(ev, "update") :
                      ev[j].arg[2] = 2 => Preceded(ev, "reset", j)
                /\ \A j \in ComputesOf(ev, 2) :
                      /\ Cardinality({i \in IndexesOf(ev, "reset") : i < j}) = 1
                      /\ r = 0 => UpdatesBefore(ev, 2, j) = 1
                      /\ r = 1 => UpdatesBefore(ev, 2, j) = 3
                      /\ UpdatesBefore(ev, 1, j) = SyncUpdates(r, 1)
                      /\ target[r].resets = 1
                      /\ target[r].updates = UpdatesBefore(ev, 2, j)

\* Ranks 0 and 1 of a sync run have both called the second compute.
C13_Witness ==
    /\ helper = "sync" /\ w_args.world_size >= 2
    /\ ComputesOf(events[0], 2) # {}
    /\ ComputesOf(events[1], 2) # {}
    /\ target[0].updates = 1 /\ target[1].updates = 3

\* The update calls of the given phase made by ranks 0 .. n-1 together.
RECURSIVE TotalUpdates(_, _)
TotalUpdates(n, phase) ==
    IF n = 0 THEN 0
    ELSE TotalUpdates(n - 1, phase)
         + UpdatesBefore(events[n - 1], phase, Len(events[n - 1]) + 1)

\* The per-rank batches the reference has aggregated once rank 0 is through
\* its compute: the steps it gathered, times the ranks gathered from.
ReferenceBatches ==
    (Cardinality(IndexesOf(events[0], "all_gather"))
        \div NumBatchKeys(w_args.task_names)) * w_args.world_size

\* C14: in each phase of sync_test_helper, whatever the world size, when
\* rank 0 compares, the update calls of the phase summed over all ranks are
\* as many as the per-rank batches the reference has aggregated
\* (2 steps x world_size ranks).
C14_AggregateUpdateCounts ==
    (helper = "sync" /\ w_args.has_test_clazz) =>
        \A phase \in {1, 2} :
            (\E j \in IndexesOf(events[0], "compare") :
                    events[0][j].arg[3] = phase)
                => /\ ReferenceBatches = 2 * w_args.world_size
                   /\ TotalUpdates(w_args.world_size, phase) = ReferenceBatches

----------------------------------------------------------------------------
(* Properties of _aggregate on tensor objects *)

\* The sum of coordinate j of state k over those of the first n dicts of
\* hist that contain k.
RECURSIVE SumOfState(_, _, _, _)
SumOfState(hist, k, j, n) ==
    IF n = 0 THEN 0
    ELSE SumOfState(hist, k, j, n - 1)
         + (IF k \in DOMAIN hist[n] THEN hist[n][k][j] ELSE 0)

\* Coordinate j of every tensor of the value dict d.
Coordinate(d, j) == [k \in DOMAIN d |-> d[k][j]]

\* Aggregate applied to coordinate j of the first n dicts of hist in turn,
\* from the empty dict.
RECURSIVE FoldAggregate(_, _, _)
FoldAggregate(hist, j, n) ==
    IF n = 0 THEN EmptyDict
    ELSE Aggregate(FoldAggregate(hist, j, n - 1), Coordinate(hist[n], j))

\* The accumulators: a kind and a task each.
Accumulators == Kinds \X AggTaskNames

\* The accumulator a step has aggregated into.
AggregatedInto(a) ==
    Len(agg_calls'[a[1]][a[2]]) = Len(agg_calls[a[1]][a[2]]) + 1

\* C15: _aggregate sums pointwise per named state.  After the dicts
\* s1 .. sn have been aggregated into an accumulator that began empty, its
\* names are the union of theirs and the tensor of every name k is the
\* pointwise sum of si[k] over the i whose dict has k; a call leaves every
\* entry whose name is not in new_states as it was (same tensor, same
\* value).
C15_AggregateSumsPointwise ==
    /\ [](\A a \in Accumulators :
            LET hist == agg_calls[a[1]][a[2]]
                d    == ValuesOf(tensor_heap, state_dicts[a[1]][a[2]])
            IN  /\ DOMAIN d = UNION {DOMAIN hist[i] : i \in 1..Len(hist)}
                /\ \A k \in DOMAIN d :
                      /\ DOMAIN d[k] = 1..2
                      /\ \A j \in 1..2 :
                            d[k][j] = SumOfState(hist, k, j, Len(hist))
                /\ \A j \in 1..2 :
                      Coordinate(d, j) = FoldAggregate(hist, j, Len(hist)))
    /\ [][\A a \in Accumulators :
            AggregatedInto(a) =>
                LET old == state_dicts[a[1]][a[2]]
                    new == state_dicts'[a[1]][a[2]]
                    ns  == The(got_states).states
                IN  \A k \in (DOMAIN old) \ (DOMAIN ns) :
                        /\ k \in DOMAIN new /\ new[k] = old[k]
                        /\ tensor_heap'[new[k]].value = tensor_heap[old[k]].value
       ]_vars

\* An accumulator has aggregated three dicts, not all with the same names,
\* and holds a name that only some of them have.
C15_Witness ==
    \E a \in Accumulators :
        LET hist == agg_calls[a[1]][a[2]]
        IN  /\ Len(hist) = 3
            /\ \E i, j \in 1..3 :
                  /\ DOMAIN hist[i] # DOMAIN hist[j]
                  /\ (DOMAIN hist[i]) \cap (DOMAIN hist[j]) # {}
            /\ DOMAIN state_dicts[a[1]][a[2]] = {"num", "den"}

\* The tensors the accumulators hold.
AccumulatorTensors(a) ==
    {state_dicts[a[1]][a[2]][k] : k \in DOMAIN state_dicts[a[1]][a[2]]}

\* C16: the tensors handed to _aggregate in new_states (the states computed
\* from a batch) are never modified and new_states keeps its entries; an
\* accumulator holds tensors of its own, none of them a tensor of
\* new_states or of another accumulator; aggregating into one of the four
\* accumulators of one task leaves the other three and the accumulators of
\* every other task unchanged.
C16_InputsAndOthersUntouched ==
    /\ [](/\ \A id \in 1..Len(tensor_heap) :
                tensor_heap[id].input =>
                    tensor_heap[id].value = tensor_heap[id].made
          /\ \A a \in Accumulators :
                /\ \A id \in AccumulatorTensors(a) : ~tensor_heap[id].input
                /\ \A b \in Accumulators \ {a} :
                      AccumulatorTensors(a) \cap AccumulatorTensors(b) = {}
                /\ Cardinality(AccumulatorTensors(a))
                      = Cardinality(DOMAIN state_dicts[a[1]][a[2]]))
    /\ [][/\ agg_count' = agg_count + 1 =>
                /\ Cardinality({a \in Accumulators : AggregatedInto(a)}) = 1
                /\ The(got_states').states = The(got_states).states
                /\ ValuesOf(tensor_heap', The(got_states').states)
                      = ValuesOf(tensor_heap, The(got_states).states)
          /\ \A a \in Accumulators :
                ~AggregatedInto(a) =>
                    /\ state_dicts'[a[1]][a[2]] = state_dicts[a[1]][a[2]]
                    /\ ValuesOf(tensor_heap', state_dicts'[a[1]][a[2]])
                          = ValuesOf(tensor_heap, state_dicts[a[1]][a[2]])
       ]_vars

\* One dict of states has been aggregated into two accumulators of its
\* task while an accumulator of the other task holds state.
C16_Witness ==
    /\ got_states # None
    /\ Cardinality(The(got_states).into) = 2
    /\ \E a \in Accumulators :
          /\ a[2] # The(got_states).task
          /\ state_dicts[a[1]][a[2]] # EmptyDict

====
